---- MODULE Spec2Model ----
(***************************************************************************)
(* A model of lale/helpers.py: the hyperparameter-space instantiator       *)
(* (create_instance_from_hyperopt_search_space and                         *)
(* instantiate_from_hyperopt_search_space) and the cross-validation        *)
(* evaluators (cross_val_score_track_trials and cross_val_score).          *)
(*                                                                         *)
(* Python values are records tagged by "kind".  A dict is the sequence of  *)
(* its (key, value) items in insertion order; keys are strings, and the    *)
(* integer keys 0, 1, 2, 3 are written "0", "1", "2", "3".  An exception   *)
(* that leaves a function is the value Raise(exc).                         *)
(***************************************************************************)
EXTENDS Integers, Sequences, FiniteSets, TLC

VARIABLES
    lale_object,   \* the structure handed to the instantiator
    hyperparams,   \* the sample object handed to it, in its current state
    sample0,       \* the sample as it was before the first call
    result,        \* what the latest instantiation call returned or raised
    first_result,  \* what the first instantiation call returned or raised
    log,           \* the calls and constructor calls of the latest call
    calls,         \* how many instantiation calls have run on hyperparams
    keyed_result,  \* what a call on the choice with {0: sample} returned or raised
    alt_result     \* what a call on the choice's alternative returned or raised

inst_vars == <<lale_object, hyperparams, sample0, result, first_result, log, calls,
               keyed_result, alt_result>>

VARIABLES
    variant,           \* "track": cross_val_score_track_trials, "simple": cross_val_score
    pc,                \* the statement the evaluator is at
    all_X,             \* the dataset X handed to the evaluator
    all_y,             \* the targets y handed to it
    yielded,           \* the (train, test) pairs cv.split(X, y) has yielded so far
    train, test,       \* the loop variables of the current fold
    X_train, y_train,  \* the train slice of the current fold
    X_test, y_test,    \* the test slice of the current fold
    clock,             \* time.time()
    start,             \* the local start
    trained,           \* what estimator.fit returned in the current fold
    score_value,       \* the local score_value
    execution_time,    \* the local execution_time
    predicted_values,  \* the local predicted_values
    cv_results,
    log_loss_results,
    time_results,
    trace,             \* the delegated calls made so far, in order
    outcome            \* what the evaluator returned or raised

cv_vars == <<variant, pc, all_X, all_y, yielded, train, test, X_train, y_train, X_test,
             y_test, clock, start, trained, score_value, execution_time,
             predicted_values, cv_results, log_loss_results, time_results, trace,
             outcome>>

VARIABLES
    sklearn_pipeline,  \* the foreign object handed to import_from_sklearn_pipeline
    fitted,            \* the argument fitted
    imports,           \* what the import calls made so far returned, in order
    next_id            \* the identity the next object created will get

imp_vars == <<sklearn_pipeline, fitted, imports, next_id>>

VARIABLES
    wrap_base,         \* the value base handed to val_wrapper
    wrap_obj,          \* the value obj handed to val_wrapper.unwrap
    unwrapped          \* what val_wrapper.unwrap returned

wrap_vars == <<wrap_base, wrap_obj, unwrapped>>

ext_vars == <<imp_vars, wrap_vars>>

vars == <<inst_vars, cv_vars, ext_vars>>

----------------------------------------------------------------------------
(* Python values *)

None == [kind |-> "none"]
PyInt(n) == [kind |-> "int", v |-> n]
PyStr(s) == [kind |-> "str", s |-> s]
PyList(s) == [kind |-> "list", items |-> s]
PyTuple(s) == [kind |-> "tuple", items |-> s]
PyDict(s) == [kind |-> "dict", items |-> s]
Raise(exc) == [kind |-> "error", exc |-> exc]
IsError(v) == v.kind = "error"

IntKeys == {"0", "1", "2", "3"}
KeyInt(k) == CASE k = "0" -> 0 [] k = "1" -> 1 [] k = "2" -> 2 [] OTHER -> 3
\* a dict key as the value that iterating the dict yields
KeyValue(k) == IF k \in IntKeys THEN PyInt(KeyInt(k)) ELSE PyStr(k)

DictHas(d, k) == \E i \in 1..Len(d.items) : d.items[i][1] = k
DictGet(d, k) == d.items[CHOOSE i \in 1..Len(d.items) : d.items[i][1] = k][2]
\* d[k] = v: an existing key keeps its place, a new key goes last
DictSet(d, k, v) ==
    IF DictHas(d, k)
    THEN PyDict([i \in 1..Len(d.items) |->
                 IF d.items[i][1] = k THEN <<k, v>> ELSE d.items[i]])
    ELSE PyDict(Append(d.items, <<k, v>>))

RECURSIVE DictMergeFrom(_, _, _)
DictMergeFrom(a, b, i) ==
    IF i > Len(b.items) THEN a
    ELSE DictMergeFrom(DictSet(a, b.items[i][1], b.items[i][2]), b, i + 1)
\* mutant: {**b, **a}, the first mapping wins
DictMerge_FirstWins(a, b) == DictMergeFrom(b, a, 1)

\* {**a, **b}
DictMerge(a, b) == DictMergeFrom(a, b, 1)

\* what "for x in v" yields, for the values that can be iterated
PyIter(v) ==
    CASE v.kind \in {"list", "tuple"} -> v.items
      [] v.kind = "dict" -> [i \in 1..Len(v.items) |-> KeyValue(v.items[i][1])]
      [] v.kind = "str" ->
           IF v.s = "name" THEN <<PyStr("n"), PyStr("a"), PyStr("m"), PyStr("e")>>
           ELSE <<PyStr(v.s)>>
      [] OTHER -> <<>>
HasLen(v) == v.kind \in {"list", "tuple", "dict", "str"}
PyLen(v) == Len(PyIter(v))

NestedHyperoptSpace(sub_space) == [kind |-> "nested", sub_space |-> sub_space]

(* Operators: an individual operator, a pipeline (steps and edges between  *)
(* step identities), a choice.  "id" is the object's identity; "trainable"  *)
(* tells an instance the instantiator built from the structure it was      *)
(* built from.                                                             *)
IndividualOp(id, cls, hp) ==
    [kind |-> "op", id |-> id, cls |-> cls, hyperparams |-> hp, trainable |-> FALSE]
BasePipeline(id, steps, edges) ==
    [kind |-> "pipe", id |-> id, steps |-> steps, edges |-> edges, trainable |-> FALSE]
OperatorChoice(id, steps) ==
    [kind |-> "choice", id |-> id, steps |-> steps]
IsOperator(v) == v.kind \in {"op", "pipe", "choice"}

\* TrainablePipeline(op_instances, trainable_edges, ordered=True)
TrainablePipeline(id, op_instances, trainable_edges) ==
    [kind |-> "pipe", id |-> id, steps |-> op_instances, edges |-> trainable_edges,
     trainable |-> TRUE]

\* lale_object(**all_hyperparams): keyword names must be strings
CallOperator(lale_object_, all_hyperparams) ==
    IF \E i \in 1..Len(all_hyperparams.items) : all_hyperparams.items[i][1] \in IntKeys
    THEN Raise("TypeError")
    ELSE [kind |-> "op", id |-> lale_object_.id, cls |-> lale_object_.cls,
          hyperparams |-> all_hyperparams, trainable |-> TRUE]

KeyOfInt(n) == CASE n = 0 -> "0" [] n = 1 -> "1" [] n = 2 -> "2" [] OTHER -> "3"

\* {k: seq[k] for k in seq}, for a sequence whose elements are all valid indices
RECURSIVE IndexDictFrom(_, _, _)
IndexDictFrom(seq, d, i) ==
    IF i > Len(seq) THEN d
    ELSE IndexDictFrom(seq, DictSet(d, KeyOfInt(seq[i].v), seq[seq[i].v + 1]), i + 1)

\* {k: orig_dict[k] for k in orig_dict if k != key}
dict_without(orig_dict, key) ==
    CASE orig_dict.kind = "dict" ->
           PyDict(SelectSeq(orig_dict.items, LAMBDA it : it[1] # key))
      [] orig_dict.kind \in {"list", "tuple"} ->
           \* orig_dict[k] with k an element: an index out of range or not an integer
           LET bad == {i \in 1..Len(orig_dict.items) :
                         \/ orig_dict.items[i].kind # "int"
                         \/ orig_dict.items[i].v >= Len(orig_dict.items)}
               first == CHOOSE i \in bad : \A j \in bad : i <= j
           IN  IF bad = {} THEN IndexDictFrom(orig_dict.items, PyDict(<<>>), 1)
               ELSE IF orig_dict.items[first].kind = "int" THEN Raise("IndexError")
               ELSE Raise("TypeError")
      [] OTHER -> Raise("TypeError")

----------------------------------------------------------------------------
(* The instantiator.  Each function returns a record: res, what the call   *)
(* returns (Raise(exc) when it raises); sample, the hyperparams argument   *)
(* as the call leaves it (a dict nested in the sample is updated in        *)
(* place); log, the calls and constructor calls it made, in order.         *)

Ret(res, sample, lg) == [res |-> res, sample |-> sample, log |-> lg]

CallEvent(obj, params) ==
    [ev |-> "call",
     id |-> IF IsOperator(obj) THEN obj.id ELSE -1,
     kind |-> obj.kind,
     stepids |-> IF obj.kind \in {"pipe", "choice"}
                 THEN [i \in 1..Len(obj.steps) |-> obj.steps[i].id] ELSE <<>>,
     nparams |-> IF HasLen(params) THEN PyLen(params) ELSE -1]
NewEvent(obj) ==
    [ev |-> "new", id |-> obj.id, kind |-> obj.kind, stepids |-> <<>>, nparams |-> -1]

SeqSet(seq, i, v) == [seq EXCEPT ![i] = v]
\* F applied to the value of v, which is computed once
Bind(v, F(_)) == CHOOSE x \in {F(r) : r \in {v}} : TRUE
class_name(op) == IF op.kind = "op" THEN op.cls ELSE op.kind

RECURSIVE create_instance_from_hyperopt_search_space(_, _)
RECURSIVE instantiate_from_hyperopt_search_space(_, _)
RECURSIVE OpHyperparamsLoop(_, _, _, _, _)
RECURSIVE PipelineStepsLoop(_, _, _, _, _, _)
RECURSIVE SequenceLoop(_, _, _, _, _)
RECURSIVE MappingLoop(_, _, _, _)

\* for k, sub_params in new_hyperparams.items(): ... (the individual operator's loop)
OpHyperparamsLoop(obj_hyperparams, new_hyperparams, sample, i, lg) ==
    IF i > Len(new_hyperparams.items)
    THEN [err |-> None, new |-> new_hyperparams, sample |-> sample, log |-> lg]
    ELSE LET k == new_hyperparams.items[i][1]
             sub_params == new_hyperparams.items[i][2]
         IN  IF ~DictHas(obj_hyperparams, k)
             THEN OpHyperparamsLoop(obj_hyperparams, new_hyperparams, sample, i + 1, lg)
             ELSE Bind(instantiate_from_hyperopt_search_space(
                           DictGet(obj_hyperparams, k), sub_params),
                  LAMBDA r :
                  Bind([sample |-> DictSet(sample, k, r.sample),
                        \* new_hyperparams[k] = updated_params, else the value object
                        \* itself, as the recursive call left it
                        new |-> DictSet(new_hyperparams, k,
                                        IF r.res = None THEN r.sample ELSE r.res),
                        log |-> lg \o r.log],
                  LAMBDA st :
                      IF IsError(r.res)
                      THEN [err |-> r.res, new |-> new_hyperparams,
                            sample |-> st.sample, log |-> st.log]
                      ELSE OpHyperparamsLoop(obj_hyperparams, st.new, st.sample, i + 1,
                                             st.log)))

\* for op_index, sub_params in enumerate(hyperparams): ... (the pipeline's loop)
PipelineStepsLoop(steps, sample, op_index, op_instances, op_map, lg) ==
    IF op_index > PyLen(sample)
    THEN [err |-> None, op_instances |-> op_instances, op_map |-> op_map,
          sample |-> sample, log |-> lg]
    ELSE LET sub_params == PyIter(sample)[op_index]
             sub_op == steps[op_index]
         IN  Bind(create_instance_from_hyperopt_search_space(sub_op, sub_params),
             LAMBDA r :
             Bind([sample |-> IF sample.kind \in {"list", "tuple"}
                              THEN [sample EXCEPT
                                      !.items = SeqSet(sample.items, op_index, r.sample)]
                              ELSE sample,
                   op_instances |-> Append(op_instances, r.res),
                   \* op_map[sub_op] = op_instance
                   op_map |-> (sub_op.id :> r.res) @@ op_map,
                   log |-> lg \o r.log],
             LAMBDA st :
                 IF IsError(r.res)
                 THEN [err |-> r.res, op_instances |-> op_instances, op_map |-> op_map,
                       sample |-> st.sample, log |-> st.log]
                 ELSE IF ~(sub_op.kind = "choice" \/ class_name(sub_op) = class_name(r.res))
                 THEN [err |-> Raise("AssertionError"), op_instances |-> op_instances,
                       op_map |-> op_map, sample |-> st.sample, log |-> st.log]
                 ELSE PipelineStepsLoop(steps, st.sample, op_index + 1, st.op_instances,
                                        st.op_map, st.log)))

\* mutant: the endpoints of every edge swapped
TrainableEdges_Swapped(edges, op_map) ==
    IF \E e \in edges : e[1] \notin DOMAIN op_map \/ e[2] \notin DOMAIN op_map
    THEN Raise("ValueError")
    ELSE [kind |-> "edges", set |-> {<<op_map[e[2]], op_map[e[1]]>> : e \in edges}]

\* trainable_edges = [(op_map[x], op_map[y]) for (x, y) in edges]
TrainableEdges(edges, op_map) ==
    IF \E e \in edges : e[1] \notin DOMAIN op_map \/ e[2] \notin DOMAIN op_map
    THEN Raise("ValueError")
    ELSE [kind |-> "edges", set |-> {<<op_map[e[1]], op_map[e[2]]>> : e \in edges}]

\* mutant: the length check is len(hyperparams) > len(steps)
PipelineCase_AcceptsShort(lale_object_, hyperparams_) ==
    LET steps == lale_object_.steps
        here == <<CallEvent(lale_object_, hyperparams_)>>
    IN  IF ~HasLen(hyperparams_) THEN Ret(Raise("TypeError"), hyperparams_, here)
        ELSE IF PyLen(hyperparams_) > Len(steps)
        THEN Ret(Raise("ValueError"), hyperparams_, here)
        ELSE Bind(PipelineStepsLoop(steps, hyperparams_, 1, <<>>, <<>>, here),
             LAMBDA l :
             Bind(TrainableEdges(lale_object_.edges, l.op_map),
             LAMBDA trainable_edges :
                 IF IsError(l.err) THEN Ret(l.err, l.sample, l.log)
                 ELSE IF IsError(trainable_edges)
                 THEN Ret(trainable_edges, l.sample, l.log)
                 ELSE Ret(TrainablePipeline(lale_object_.id, l.op_instances,
                                            trainable_edges.set),
                          l.sample, l.log)))

PipelineCase(lale_object_, hyperparams_) ==
    LET steps == lale_object_.steps
        here == <<CallEvent(lale_object_, hyperparams_)>>
    IN  IF ~HasLen(hyperparams_) THEN Ret(Raise("TypeError"), hyperparams_, here)
        ELSE IF PyLen(hyperparams_) # Len(steps)
        THEN Ret(Raise("ValueError"), hyperparams_, here)
        ELSE Bind(PipelineStepsLoop(steps, hyperparams_, 1, <<>>, <<>>, here),
             LAMBDA l :
             Bind(TrainableEdges(lale_object_.edges, l.op_map),
             LAMBDA trainable_edges :
                 IF IsError(l.err) THEN Ret(l.err, l.sample, l.log)
                 ELSE IF IsError(trainable_edges)
                 THEN Ret(trainable_edges, l.sample, l.log)
                 ELSE Ret(TrainablePipeline(lale_object_.id, l.op_instances,
                                            trainable_edges.set),
                          l.sample, l.log)))

IndividualOpCase(lale_object_, hyperparams_) ==
    LET here == <<CallEvent(lale_object_, hyperparams_)>>
        obj_hyperparams == IF lale_object_.hyperparams # None
                           THEN lale_object_.hyperparams ELSE PyDict(<<>>)
    IN  Bind(dict_without(hyperparams_, "name"),
        LAMBDA new_hyperparams :
            IF IsError(new_hyperparams) THEN Ret(new_hyperparams, hyperparams_, here)
            ELSE Bind(OpHyperparamsLoop(obj_hyperparams, new_hyperparams,
                                        hyperparams_, 1, here),
                 LAMBDA l :
                     IF IsError(l.err) THEN Ret(l.err, l.sample, l.log)
                     ELSE Bind(CallOperator(lale_object_,
                                            DictMerge(obj_hyperparams, l.new)),
                          LAMBDA made :
                              IF IsError(made) THEN Ret(made, l.sample, l.log)
                              ELSE Ret(made, l.sample,
                                       Append(l.log, NewEvent(lale_object_))))))

\* mutant: no shortcut for a single alternative, the sample is always unwrapped
ChoiceCase_AlwaysKeyed(lale_object_, hyperparams_) ==
    LET choices == lale_object_.steps
        here == <<CallEvent(lale_object_, hyperparams_)>>
    IN  IF hyperparams_.kind # "dict"
        THEN Ret(Raise("AttributeError"), hyperparams_, here)
        ELSE IF Len(hyperparams_.items) = 0
        THEN Ret(Raise("IndexError"), hyperparams_, here)
        ELSE LET step_index == hyperparams_.items[1][1]
                 sub == hyperparams_.items[1][2]
             IN  IF step_index \notin IntKeys
                 THEN Ret(Raise("TypeError"), hyperparams_, here)
                 ELSE IF KeyInt(step_index) >= Len(choices)
                 THEN Ret(Raise("IndexError"), hyperparams_, here)
                 ELSE Bind(create_instance_from_hyperopt_search_space(
                               choices[KeyInt(step_index) + 1], sub),
                      LAMBDA r : Ret(r.res, DictSet(hyperparams_, step_index, r.sample),
                                     here \o r.log))

ChoiceCase(lale_object_, hyperparams_) ==
    LET choices == lale_object_.steps
        here == <<CallEvent(lale_object_, hyperparams_)>>
    IN  IF Len(choices) = 1
        THEN Bind(create_instance_from_hyperopt_search_space(choices[1], hyperparams_),
             LAMBDA r : Ret(r.res, r.sample, here \o r.log))
        \* step_index, hyperparams = list(hyperparams.items())[0]
        ELSE IF hyperparams_.kind # "dict"
        THEN Ret(Raise("AttributeError"), hyperparams_, here)
        ELSE IF Len(hyperparams_.items) = 0
        THEN Ret(Raise("IndexError"), hyperparams_, here)
        ELSE LET step_index == hyperparams_.items[1][1]
                 sub == hyperparams_.items[1][2]
             IN  \* step_object = choices[step_index]
                 IF step_index \notin IntKeys
                 THEN Ret(Raise("TypeError"), hyperparams_, here)
                 ELSE IF KeyInt(step_index) >= Len(choices)
                 THEN Ret(Raise("IndexError"), hyperparams_, here)
                 ELSE Bind(create_instance_from_hyperopt_search_space(
                               choices[KeyInt(step_index) + 1], sub),
                      LAMBDA r : Ret(r.res, DictSet(hyperparams_, step_index, r.sample),
                                     here \o r.log))

create_instance_from_hyperopt_search_space(lale_object_, hyperparams_) ==
    CASE lale_object_.kind = "op" -> IndividualOpCase(lale_object_, hyperparams_)
      [] lale_object_.kind = "pipe" -> PipelineCase(lale_object_, hyperparams_)
      [] lale_object_.kind = "choice" -> ChoiceCase(lale_object_, hyperparams_)
      [] OTHER -> Ret(None, hyperparams_, <<CallEvent(lale_object_, hyperparams_)>>)

\* mutant: res = new_hyperparams, the updates are stored in the sample's own list
SequenceLoop_InPlace(obj_hyperparams, new_hyperparams, i, updated, lg) ==
    IF i > Len(new_hyperparams.items)
    THEN [err |-> None, updated |-> updated, sample |-> new_hyperparams, log |-> lg]
    ELSE Bind(instantiate_from_hyperopt_search_space(
                  obj_hyperparams.items[i], new_hyperparams.items[i]),
         LAMBDA r :
         Bind([sample |-> [new_hyperparams EXCEPT
                             !.items = SeqSet(new_hyperparams.items, i,
                                              IF r.res = None \/ IsError(r.res)
                                              THEN r.sample ELSE r.res)],
               updated |-> IF r.res # None THEN (i :> r.res) @@ updated ELSE updated,
               log |-> lg \o r.log],
         LAMBDA st :
             IF IsError(r.res)
             THEN [err |-> r.res, updated |-> updated, sample |-> st.sample,
                   log |-> st.log]
             ELSE SequenceLoop(obj_hyperparams, st.sample, i + 1, st.updated, st.log)))

\* for i in range(params_len): ... (the list/tuple loop); updated maps each index
\* whose updated_params was not None to it (res is None while it is empty)
SequenceLoop(obj_hyperparams, new_hyperparams, i, updated, lg) ==
    IF i > Len(new_hyperparams.items)
    THEN [err |-> None, updated |-> updated, sample |-> new_hyperparams, log |-> lg]
    ELSE Bind(instantiate_from_hyperopt_search_space(
                  obj_hyperparams.items[i], new_hyperparams.items[i]),
         LAMBDA r :
         Bind([sample |-> [new_hyperparams EXCEPT
                             !.items = SeqSet(new_hyperparams.items, i, r.sample)],
               updated |-> IF r.res # None THEN (i :> r.res) @@ updated ELSE updated,
               log |-> lg \o r.log],
         LAMBDA st :
             IF IsError(r.res)
             THEN [err |-> r.res, updated |-> updated, sample |-> st.sample,
                   log |-> st.log]
             ELSE SequenceLoop(obj_hyperparams, st.sample, i + 1, st.updated, st.log)))

\* for k, sub_params in new_hyperparams.items(): ... (the dict loop); returns the
\* dict as the loop leaves it
MappingLoop(obj_hyperparams, new_hyperparams, i, lg) ==
    IF i > Len(new_hyperparams.items)
    THEN [err |-> None, sample |-> new_hyperparams, log |-> lg]
    ELSE LET k == new_hyperparams.items[i][1]
             sub_params == new_hyperparams.items[i][2]
         IN  IF ~DictHas(obj_hyperparams, k)
             THEN MappingLoop(obj_hyperparams, new_hyperparams, i + 1, lg)
             ELSE Bind(instantiate_from_hyperopt_search_space(
                           DictGet(obj_hyperparams, k), sub_params),
                  LAMBDA r :
                  \* new_hyperparams[k] = updated_params, else the value object
                  \* itself, as the recursive call left it
                  Bind([sample |-> DictSet(new_hyperparams, k,
                                           IF r.res = None \/ IsError(r.res)
                                           THEN r.sample ELSE r.res),
                        log |-> lg \o r.log],
                  LAMBDA st :
                      IF IsError(r.res)
                      THEN [err |-> r.res, sample |-> st.sample, log |-> st.log]
                      ELSE MappingLoop(obj_hyperparams, st.sample, i + 1, st.log)))

IsIterable(v) == v.kind \in {"list", "tuple", "dict", "str"}

NestedCase(obj_hyperparams, new_hyperparams) ==
    LET sub_space == new_hyperparams.sub_space
        direct(sub_op) ==
            Bind(create_instance_from_hyperopt_search_space(sub_op, sub_space),
            LAMBDA r : Ret(r.res, NestedHyperoptSpace(r.sample), r.log))
        fail(exc) == Ret(Raise(exc), new_hyperparams, <<>>)
    IN  IF obj_hyperparams.kind # "list" THEN direct(obj_hyperparams)
        ELSE IF Len(obj_hyperparams.items) = 1 THEN direct(obj_hyperparams.items[1])
        \* step_index, step_params = list(sub_params)[0]
        ELSE IF ~IsIterable(sub_space) THEN fail("TypeError")
        ELSE IF PyLen(sub_space) = 0 THEN fail("IndexError")
        ELSE LET first == PyIter(sub_space)[1]
             IN  IF ~IsIterable(first) THEN fail("TypeError")
                 ELSE IF PyLen(first) # 2 THEN fail("ValueError")
                 ELSE LET step_index == PyIter(first)[1]
                          step_params == PyIter(first)[2]
                      IN  \* if step_index < len(sub_op)
                          IF step_index.kind # "int" THEN fail("TypeError")
                          ELSE IF step_index.v < Len(obj_hyperparams.items)
                          THEN Bind(create_instance_from_hyperopt_search_space(
                                        obj_hyperparams.items[step_index.v + 1],
                                        step_params),
                               LAMBDA r :
                                   LET first2 == IF first.kind \in {"list", "tuple"}
                                                 THEN [first EXCEPT !.items[2] = r.sample]
                                                 ELSE first
                                       space2 == IF sub_space.kind \in {"list", "tuple"}
                                                 THEN [sub_space EXCEPT !.items[1] = first2]
                                                 ELSE sub_space
                                   IN  Ret(r.res, NestedHyperoptSpace(space2), r.log))
                          ELSE direct(obj_hyperparams)

SequenceCase(obj_hyperparams, new_hyperparams) ==
    IF obj_hyperparams.kind \notin {"list", "tuple"}
    THEN Ret(Raise("AssertionError"), new_hyperparams, <<>>)
    ELSE IF Len(new_hyperparams.items) # Len(obj_hyperparams.items)
    THEN Ret(Raise("AssertionError"), new_hyperparams, <<>>)
    ELSE Bind(SequenceLoop(obj_hyperparams, new_hyperparams, 1, <<>>, <<>>),
         LAMBDA l :
         LET \* res: the updated entries, and the other entries as they now are
             res == [i \in 1..Len(l.sample.items) |->
                       IF i \in DOMAIN l.updated THEN l.updated[i]
                       ELSE l.sample.items[i]]
             is_obj_tuple == obj_hyperparams.kind = "tuple"
             is_new_tuple == new_hyperparams.kind = "tuple"
         IN  IF IsError(l.err) THEN Ret(l.err, l.sample, l.log)
             ELSE IF DOMAIN l.updated # {}
             THEN Ret(IF is_obj_tuple THEN PyTuple(res) ELSE PyList(res),
                      l.sample, l.log)
             ELSE IF is_obj_tuple # is_new_tuple
             THEN Ret(IF is_obj_tuple THEN PyTuple(l.sample.items)
                      ELSE PyList(l.sample.items), l.sample, l.log)
             ELSE Ret(None, l.sample, l.log))

\* mutant: the mapping case ends with return new_hyperparams
MappingCase_ReturnsMapping(obj_hyperparams, new_hyperparams) ==
    IF obj_hyperparams.kind # "dict"
    THEN Ret(Raise("AssertionError"), new_hyperparams, <<>>)
    ELSE Bind(MappingLoop(obj_hyperparams, new_hyperparams, 1, <<>>),
         LAMBDA l : IF IsError(l.err) THEN Ret(l.err, l.sample, l.log)
                    ELSE Ret(l.sample, l.sample, l.log))

MappingCase(obj_hyperparams, new_hyperparams) ==
    IF obj_hyperparams.kind # "dict"
    THEN Ret(Raise("AssertionError"), new_hyperparams, <<>>)
    ELSE Bind(MappingLoop(obj_hyperparams, new_hyperparams, 1, <<>>),
         LAMBDA l : IF IsError(l.err) THEN Ret(l.err, l.sample, l.log)
                    ELSE Ret(None, l.sample, l.log))

instantiate_from_hyperopt_search_space(obj_hyperparams, new_hyperparams) ==
    CASE new_hyperparams.kind = "nested" -> NestedCase(obj_hyperparams, new_hyperparams)
      [] new_hyperparams.kind \in {"list", "tuple"} ->
           SequenceCase(obj_hyperparams, new_hyperparams)
      [] new_hyperparams.kind = "dict" -> MappingCase(obj_hyperparams, new_hyperparams)
      [] OTHER -> Ret(None, new_hyperparams, <<>>)

----------------------------------------------------------------------------
(* The structures and samples the instantiator is run on. *)

MaxSteps == 2    \* steps of a pipeline
MaxAlts == 2     \* alternatives of a choice
MaxCalls == 2    \* instantiation calls on one sample object

NotRun == [kind |-> "notrun"]

SeqsUpTo(S, n) == UNION {[1..m -> S] : m \in 0..n}
NonEmptySeqsUpTo(S, n) == UNION {[1..m -> S] : m \in 1..n}

Defaults == PyDict(<< <<"a", PyInt(1)>>, <<"b", PyInt(2)>> >>)
Leaf(id) == IndividualOp(id, "KNN", Defaults)
Meta(id, est) == IndividualOp(id, "Bagging", PyDict(<< <<"e", est>>, <<"b", PyInt(2)>> >>))
\* a two-step pipeline Scaler -> Classifier
SmallPipeline(id) ==
    BasePipeline(id, <<IndividualOp(10 * id + 1, "Scaler", None), Leaf(10 * id + 2)>>,
                 {<<10 * id + 1, 10 * id + 2>>})

\* values of an operator-valued hyperparameter
EstimatorValues(id) ==
    { Leaf(10 * id + 1),
      SmallPipeline(10 * id + 1),
      PyList(<<Leaf(10 * id + 1)>>),
      PyList(<<Leaf(10 * id + 1), Leaf(10 * id + 2)>>),
      PyTuple(<<Leaf(10 * id + 1), PyInt(3)>>),
      PyDict(<< <<"k", Leaf(10 * id + 1)>>, <<"j", PyInt(3)>> >>),
      PyInt(5) }

TopOps ==
    {IndividualOp(1, "KNN", hp) : hp \in {None, PyDict(<<>>), Defaults,
                                          PyDict(<< <<"name", PyInt(1)>> >>)}}
    \cup {Meta(1, est) : est \in EstimatorValues(1)}

\* the alternatives of a choice, and the steps of a pipeline, with identity id
ChoicesAt(id) ==
    {OperatorChoice(id, [i \in 1..Len(shape) |->
                           IF shape[i] = "op" THEN Leaf(10 * id + i)
                           ELSE SmallPipeline(10 * id + i)]) :
       shape \in NonEmptySeqsUpTo({"op", "pipe"}, MaxAlts)}
StepAt(id, shape) ==
    CASE shape = "op" -> Leaf(id)
      [] shape = "meta" -> Meta(id, PyDict(<< <<"k", Leaf(10 * id + 1)>> >>))
      [] OTHER -> OperatorChoice(id, <<SmallPipeline(10 * id + 1)>>)
StepShapes == {"op", "meta", "choice"}

\* the edge sets tried on steps: none, a chain, all forward pairs, a dangling edge
EdgeSets(steps) ==
    LET n == Len(steps)
    IN  { {},
          {<<steps[i].id, steps[i + 1].id>> : i \in 1..(n - 1)},
          {<<steps[p[1]].id, steps[p[2]].id>> :
             p \in {q \in (1..n) \X (1..n) : q[1] < q[2]}},
          {<<steps[1].id, 99>>} }
TopPipelines ==
    UNION { LET steps == [i \in 1..Len(shape) |-> StepAt(10 + i, shape[i])]
            IN  {BasePipeline(1, steps, edges) : edges \in EdgeSets(steps)} :
            shape \in NonEmptySeqsUpTo(StepShapes, MaxSteps) }

\* samples of an individual operator without operator-valued hyperparameters
Named(items) == PyDict(<< <<"name", PyStr("KNN")>> >> \o items)
LeafSamples ==
    { PyDict(<<>>),
      PyDict(<< <<"a", PyInt(9)>> >>),
      Named(<< <<"a", PyInt(9)>> >>),
      Named(<< <<"c", PyInt(7)>>, <<"b", PyInt(8)>> >>) }
SmallLeafSamples == {PyDict(<<>>), Named(<< <<"a", PyInt(9)>> >>)}
\* samples of a pipeline: one entry per step, or one too few, or one too many
PipelineSamples(entries, n) ==
    {PyList(s) : s \in SeqsUpTo(entries, n + 1)}
    \cup {PyTuple(s) : s \in NonEmptySeqsUpTo(entries, n)}

\* sample values of an operator-valued hyperparameter
Marker == NestedHyperoptSpace(Named(<< <<"a", PyInt(9)>> >>))
EstimatorSampleValues ==
    { Marker,
      NestedHyperoptSpace(PyList(<<PyDict(<<>>), PyDict(<< <<"a", PyInt(9)>> >>)>>)),
      NestedHyperoptSpace(PyList(<<PyDict(<<>>)>>)),
      PyList(<<Marker>>),
      PyList(<<Marker, PyInt(4)>>),
      PyTuple(<<Marker, PyInt(4)>>),
      PyList(<<PyInt(6), PyInt(4)>>),
      PyDict(<< <<"k", Marker>> >>),
      PyDict(<< <<"j", PyInt(4)>>, <<"k", Marker>> >>),
      PyDict(<< <<"k", PyInt(4)>> >>),
      PyInt(4) }
    \cup {NestedHyperoptSpace(PyList(<<PyTuple(<<PyInt(i), PyDict(<< <<"b", PyInt(8)>> >>)>>)>>)) :
            i \in 0..MaxAlts}
OpSamples ==
    LeafSamples
    \cup {PyDict(<< <<"e", v>> >>) : v \in EstimatorSampleValues}
    \cup {Named(<< <<"b", PyInt(8)>>, <<"e", v>> >>) : v \in EstimatorSampleValues}
    \cup {PyList(<<>>), PyList(<<PyInt(0)>>), PyInt(4), PyDict(<< <<"0", PyInt(4)>> >>)}

ChoiceInnerSamples == LeafSamples \cup PipelineSamples(SmallLeafSamples, 2)
ChoiceSamples ==
    ChoiceInnerSamples
    \cup {PyDict(<< <<KeyOfInt(i), v>> >>) : i \in 0..MaxAlts, v \in ChoiceInnerSamples}
    \cup {PyDict(<< <<"1", PyDict(<<>>)>>, <<"0", PyDict(<<>>)>> >>)}

StepSamples ==
    { PyDict(<<>>),
      Named(<< <<"a", PyInt(9)>> >>),
      PyDict(<< <<"e", PyDict(<< <<"k", Marker>> >>)>> >>),
      PyList(<<PyDict(<<>>), PyDict(<< <<"a", PyInt(9)>> >>)>>),
      PyList(<<PyDict(<<>>)>>) }
TopPipelineSamples ==
    PipelineSamples(StepSamples, MaxSteps)
    \cup {PyDict(<< <<"a", PyInt(9)>> >>), PyInt(4)}

Inputs ==
    (TopOps \X OpSamples)
    \cup (ChoicesAt(1) \X ChoiceSamples)
    \cup (TopPipelines \X TopPipelineSamples)

----------------------------------------------------------------------------
(* The cross-validation evaluators.  A dataset is its rows and the schema   *)
(* attached to it (None when it carries none); a number that numpy's mean   *)
(* returns is the pair of the sum and the count, and is NaN when the count  *)
(* is 0.                                                                    *)

MaxFolds == 2    \* folds one splitter yields

Unbound == [kind |-> "unbound"]
Local(v) == [kind |-> "bound", v |-> v]
Value(v) == [kind |-> "value", v |-> v]
Exhausted == [kind |-> "exhausted"]

Dataset(rows, json_schema) == [rows |-> rows, json_schema |-> json_schema]
ArraySchema(n_rows, items) ==
    [type |-> "array", minItems |-> n_rows, maxItems |-> n_rows, items |-> items]

\* _safe_split: the rows of the data at the indices, in the order of the indices
safe_split(all, indices) == [i \in 1..Len(indices) |-> all.rows[indices[i]]]

\* lale.datasets.data_schemas.add_schema(value, schema): the schema is attached to
\* the value it is given
add_schema(value, schema) == Dataset(value.rows, schema)

\* mutant: the subset is given the schema of the whole dataset
SubsetWithSchema_WholeSchema(all, indices) ==
    LET subset == Dataset(safe_split(all, indices), None)
    IN  IF all.json_schema # None
        THEN add_schema(subset, all.json_schema)
        ELSE subset

\* one of the two subsets split_with_schemas returns: n_rows = subset.shape[0]
SubsetWithSchema(all, indices) ==
    LET subset == Dataset(safe_split(all, indices), None)
        n_rows == Len(subset.rows)
    IN  IF all.json_schema # None
        THEN add_schema(subset, ArraySchema(n_rows, all.json_schema.items))
        ELSE subset

split_with_schemas(all_X_, all_y_, indices) ==
    <<SubsetWithSchema(all_X_, indices), SubsetWithSchema(all_y_, indices)>>

RECURSIVE Sum(_)
Sum(arr) == IF arr = <<>> THEN 0 ELSE arr[1] + Sum(Tail(arr))

\* mutant: the last value of the list instead of the mean of its values
mean_LastValue(arr) ==
    IF arr = <<>> THEN [num |-> 0, den |-> 0] ELSE [num |-> arr[Len(arr)], den |-> 1]

\* np.array(arr).mean() of a list
mean(arr) == [num |-> Sum(arr), den |-> Len(arr)]

\* np.array(x).mean() of one number
mean_of_scalar(x) == [num |-> x, den |-> 1]

\* a delegated call: which, in which fold, on what, what it returned or raised,
\* and the time at which it ended
Event(op, fold, args, out, t) ==
    [op |-> op, fold |-> fold, args |-> args, out |-> out, t |-> t]

\* the datasets, splits, scores and durations the evaluators are run with
Datasets ==
    { <<Dataset(<<"x1", "x2", "x3">>, None), Dataset(<<"y1", "y2", "y3">>, None)>>,
      <<Dataset(<<"x1", "x2", "x3">>, ArraySchema(3, "features")),
        Dataset(<<"y1", "y2", "y3">>, ArraySchema(3, "label"))>> }
FoldSet == { <<<<1, 2>>, <<3>>>>, <<<<2, 3>>, <<1>>>> }
Scores == {0, 1}
LogLosses == {1, 3}
FitDurations == {1, 2}
Exceptions == {"ValueError", "KeyboardInterrupt"}
LogLossFailures == {"AttributeError", "ValueError", "KeyboardInterrupt"}

\* the evaluators are not running
IdleCV ==
    /\ variant = "none"
    /\ pc = "done"
    /\ all_X = None
    /\ all_y = None
    /\ yielded = <<>>
    /\ train = <<>>
    /\ test = <<>>
    /\ X_train = Unbound
    /\ y_train = Unbound
    /\ X_test = Unbound
    /\ y_test = Unbound
    /\ clock = 0
    /\ start = Unbound
    /\ trained = Unbound
    /\ score_value = Unbound
    /\ execution_time = Unbound
    /\ predicted_values = Unbound
    /\ cv_results = <<>>
    /\ log_loss_results = <<>>
    /\ time_results = <<>>
    /\ trace = <<>>
    /\ outcome = NotRun

\* no import and no unwrap call is running
IdleExt ==
    /\ sklearn_pipeline = None
    /\ fitted = FALSE
    /\ imports = <<>>
    /\ next_id = 0
    /\ wrap_base = None
    /\ wrap_obj = None
    /\ unwrapped = NotRun

\* the instantiator is not running
IdleInst ==
    /\ lale_object = None
    /\ hyperparams = None
    /\ sample0 = None
    /\ result = NotRun
    /\ first_result = NotRun
    /\ log = <<>>
    /\ calls = MaxCalls
    /\ keyed_result = NotRun
    /\ alt_result = NotRun

----------------------------------------------------------------------------
(* The optimizer driver's calls of the instantiator. *)

InitInst ==
    /\ \E input \in Inputs : lale_object = input[1] /\ hyperparams = input[2]
    /\ sample0 = hyperparams
    /\ result = NotRun
    /\ first_result = NotRun
    /\ log = <<>>
    /\ calls = 0
    /\ keyed_result = NotRun
    /\ alt_result = NotRun
    /\ IdleCV
    /\ IdleExt

\* create_instance_from_hyperopt_search_space(lale_object, hyperparams)
Instantiate ==
    /\ calls = 0
    /\ \E r \in {create_instance_from_hyperopt_search_space(lale_object, hyperparams)} :
           /\ result' = r.res
           /\ first_result' = r.res
           /\ hyperparams' = r.sample
           /\ log' = r.log
    /\ calls' = 1
    /\ UNCHANGED <<lale_object, sample0, keyed_result, alt_result, cv_vars, ext_vars>>

\* the same call again, on the same structure and the same sample object
Reinstantiate ==
    /\ calls >= 1
    /\ calls < MaxCalls
    /\ \E r \in {create_instance_from_hyperopt_search_space(lale_object, hyperparams)} :
           /\ result' = r.res
           /\ hyperparams' = r.sample
           /\ log' = r.log
    /\ calls' = calls + 1
    /\ UNCHANGED <<lale_object, sample0, first_result, keyed_result, alt_result,
                   cv_vars, ext_vars>>

\* a call on the choice with a fresh sample {0: sample}
InstantiateKeyed ==
    /\ lale_object.kind = "choice"
    /\ keyed_result = NotRun
    /\ keyed_result' = create_instance_from_hyperopt_search_space(
                           lale_object, PyDict(<< <<"0", sample0>> >>)).res
    /\ UNCHANGED <<lale_object, hyperparams, sample0, result, first_result, log, calls,
                   alt_result, cv_vars, ext_vars>>

\* a call on the first alternative of the choice with a fresh copy of the sample
InstantiateAlternative ==
    /\ lale_object.kind = "choice"
    /\ alt_result = NotRun
    /\ alt_result' = create_instance_from_hyperopt_search_space(
                         lale_object.steps[1], sample0).res
    /\ UNCHANGED <<lale_object, hyperparams, sample0, result, first_result, log, calls,
                   keyed_result, cv_vars, ext_vars>>

NextInst == Instantiate \/ Reinstantiate \/ InstantiateKeyed \/ InstantiateAlternative

SpecInst == InitInst /\ [][NextInst]_vars

----------------------------------------------------------------------------
(* instantiate_from_hyperopt_search_space on its own: lale_object is the    *)
(* original hyperparameter value, hyperparams the sample value.             *)

\* original values and sample values of one hyperparameter
ValuePairs ==
    (EstimatorValues(1) \X EstimatorSampleValues)
    \cup { <<PyList(<<PyDict(<< <<"k", Leaf(11)>>, <<"j", PyInt(3)>> >>), PyInt(3)>>),
             PyList(<<PyDict(<< <<"k", Marker>> >>), PyInt(4)>>)>>,
           <<PyTuple(<<PyList(<<Leaf(11), PyInt(3)>>), PyInt(3)>>),
             PyTuple(<<PyList(<<Marker, PyInt(4)>>), PyInt(4)>>)>>,
           <<PyTuple(<<PyList(<<Leaf(11), PyInt(3)>>), PyInt(3)>>),
             PyList(<<PyList(<<PyInt(6), PyInt(4)>>), PyInt(4)>>)>>,
           <<PyDict(<< <<"k", PyTuple(<<Leaf(11), PyInt(3)>>)>> >>),
             PyDict(<< <<"k", PyList(<<Marker, PyInt(4)>>)>> >>)>>,
           <<PyDict(<< <<"k", PyDict(<< <<"k", Leaf(11)>> >>)>> >>),
             PyDict(<< <<"k", PyDict(<< <<"k", Marker>> >>)>> >>)>>,
           <<PyDict(<< <<"j", Leaf(11)>> >>), PyDict(<< <<"k", Marker>> >>)>>,
           <<PyStr("a"), PyStr("b")>>,
           <<None, None>> }

InitValue ==
    /\ \E input \in ValuePairs : lale_object = input[1] /\ hyperparams = input[2]
    /\ sample0 = hyperparams
    /\ result = NotRun
    /\ first_result = NotRun
    /\ log = <<>>
    /\ calls = 0
    /\ keyed_result = NotRun
    /\ alt_result = NotRun
    /\ IdleCV
    /\ IdleExt

\* updated_params = instantiate_from_hyperopt_search_space(sub_op, sub_params)
InstantiateValue ==
    /\ calls = 0
    /\ \E r \in {instantiate_from_hyperopt_search_space(lale_object, hyperparams)} :
           /\ result' = r.res
           /\ first_result' = r.res
           /\ hyperparams' = r.sample
           /\ log' = r.log
    /\ calls' = 1
    /\ UNCHANGED <<lale_object, sample0, keyed_result, alt_result, cv_vars, ext_vars>>

NextValue == InstantiateValue

SpecValue == InitValue /\ [][NextValue]_vars

----------------------------------------------------------------------------
(* One invocation of an evaluator, statement by statement.  The splitter,   *)
(* the estimator and the scorer are the caller's: what they yield, return   *)
(* or raise is chosen freely at each call.                                  *)

InitCV ==
    /\ IdleInst
    /\ variant \in {"track", "simple"}
    /\ pc = "split"
    /\ \E d \in Datasets : all_X = d[1] /\ all_y = d[2]
    /\ yielded = <<>>
    /\ train = <<>>
    /\ test = <<>>
    /\ X_train = Unbound
    /\ y_train = Unbound
    /\ X_test = Unbound
    /\ y_test = Unbound
    /\ clock = 0
    /\ start = Unbound
    /\ trained = Unbound
    /\ score_value = Unbound
    /\ execution_time = Unbound
    /\ predicted_values = Unbound
    /\ cv_results = <<>>
    /\ log_loss_results = <<>>
    /\ time_results = <<>>
    /\ trace = <<>>
    /\ outcome = NotRun
    /\ IdleExt

\* the evaluator raises exc to its caller out of the call op
Propagate(op, args, exc) ==
    /\ trace' = Append(trace, Event(op, Len(yielded), args, Raise(exc), clock))
    /\ outcome' = Raise(exc)
    /\ pc' = "done"

\* for train, test in cv.split(X, y): the splitter yields a fold; the two
\* split_with_schemas calls; start = time.time()
SplitYields ==
    /\ pc = "split"
    /\ Len(yielded) < MaxFolds
    /\ \E fold \in FoldSet :
           /\ yielded' = Append(yielded, fold)
           /\ train' = fold[1]
           /\ test' = fold[2]
           /\ \E tr \in {split_with_schemas(all_X, all_y, fold[1])} :
                  X_train' = tr[1] /\ y_train' = tr[2]
           /\ \E te \in {split_with_schemas(all_X, all_y, fold[2])} :
                  X_test' = te[1] /\ y_test' = te[2]
           /\ trace' = Append(trace, Event("split", Len(yielded) + 1,
                                           [X |-> all_X, y |-> all_y], Value(fold), clock))
    /\ start' = IF variant = "track" THEN Local(clock) ELSE start
    /\ pc' = "fit"
    /\ UNCHANGED <<variant, all_X, all_y, clock, trained, score_value, execution_time,
                   predicted_values, cv_results, log_loss_results, time_results,
                   outcome, inst_vars, ext_vars>>

\* the splitter has no more folds: the loop ends
SplitExhausted ==
    /\ pc = "split"
    /\ trace' = Append(trace, Event("split", Len(yielded), [X |-> all_X, y |-> all_y],
                                    Exhausted, clock))
    /\ pc' = "return"
    /\ UNCHANGED <<variant, all_X, all_y, yielded, train, test, X_train, y_train,
                   X_test, y_test, clock, start, trained, score_value, execution_time,
                   predicted_values, cv_results, log_loss_results, time_results,
                   outcome, inst_vars, ext_vars>>

\* the splitter raises
SplitRaises ==
    /\ pc = "split"
    /\ \E exc \in Exceptions : Propagate("split", [X |-> all_X, y |-> all_y], exc)
    /\ UNCHANGED <<variant, all_X, all_y, yielded, train, test, X_train, y_train,
                   X_test, y_test, clock, start, trained, score_value, execution_time,
                   predicted_values, cv_results, log_loss_results, time_results,
                   inst_vars, ext_vars>>

\* trained = estimator.fit(X_train, y_train)
Fit ==
    /\ pc = "fit"
    /\ trained' = [fitted_X |-> X_train, fitted_y |-> y_train]
    /\ \E d \in FitDurations :
           /\ clock' = clock + d
           /\ trace' = Append(trace, Event("fit", Len(yielded),
                                           [X |-> X_train, y |-> y_train],
                                           Value(trained'), clock + d))
    /\ pc' = IF variant = "track" THEN "score" ELSE "predict"
    /\ UNCHANGED <<variant, all_X, all_y, yielded, train, test, X_train, y_train,
                   X_test, y_test, start, score_value, execution_time, predicted_values,
                   cv_results, log_loss_results, time_results, outcome, inst_vars, ext_vars>>

\* mutant: a fit that raises is skipped and the loop goes on to the next fold
FitRaises_Skipped ==
    /\ pc = "fit"
    /\ \E exc \in Exceptions :
           trace' = Append(trace, Event("fit", Len(yielded),
                                        [X |-> X_train, y |-> y_train], Raise(exc), clock))
    /\ pc' = "split"
    /\ UNCHANGED <<variant, all_X, all_y, yielded, train, test, X_train, y_train,
                   X_test, y_test, clock, start, trained, score_value, execution_time,
                   predicted_values, cv_results, log_loss_results, time_results,
                   outcome, inst_vars, ext_vars>>

\* estimator.fit raises
FitRaises ==
    /\ pc = "fit"
    /\ \E exc \in Exceptions : Propagate("fit", [X |-> X_train, y |-> y_train], exc)
    /\ UNCHANGED <<variant, all_X, all_y, yielded, train, test, X_train, y_train,
                   X_test, y_test, clock, start, trained, score_value, execution_time,
                   predicted_values, cv_results, log_loss_results, time_results,
                   inst_vars, ext_vars>>

\* mutant: the estimator is scored on the train slice
Score_OnTrainSlice ==
    /\ pc = "score"
    /\ variant = "track"
    /\ clock' = clock + 1
    /\ \E v \in Scores :
           /\ score_value' = Local(v)
           /\ trace' = Append(trace, Event("score", Len(yielded),
                                           [est |-> trained, X |-> X_train, y |-> y_train],
                                           Value(v), clock'))
    /\ execution_time' = Local(clock' - start.v)
    /\ pc' = "log_loss"
    /\ UNCHANGED <<variant, all_X, all_y, yielded, train, test, X_train, y_train,
                   X_test, y_test, start, trained, predicted_values, cv_results,
                   log_loss_results, time_results, outcome, inst_vars, ext_vars>>

\* score_value = scorer(trained, X_test, y_test, **args_to_scorer);
\* execution_time = time.time() - start
Score ==
    /\ pc = "score"
    /\ variant = "track"
    /\ clock' = clock + 1
    /\ \E v \in Scores :
           /\ score_value' = Local(v)
           /\ trace' = Append(trace, Event("score", Len(yielded),
                                           [est |-> trained, X |-> X_test, y |-> y_test],
                                           Value(v), clock'))
    /\ execution_time' = Local(clock' - start.v)
    /\ pc' = "log_loss"
    /\ UNCHANGED <<variant, all_X, all_y, yielded, train, test, X_train, y_train,
                   X_test, y_test, start, trained, predicted_values, cv_results,
                   log_loss_results, time_results, outcome, inst_vars, ext_vars>>

\* the scorer raises
ScoreRaises ==
    /\ pc = "score"
    /\ variant = "track"
    /\ \E exc \in Exceptions :
           Propagate("score", [est |-> trained, X |-> X_test, y |-> y_test], exc)
    /\ UNCHANGED <<variant, all_X, all_y, yielded, train, test, X_train, y_train,
                   X_test, y_test, clock, start, trained, score_value, execution_time,
                   predicted_values, cv_results, log_loss_results, time_results,
                   inst_vars, ext_vars>>

\* the try block succeeds: log_loss_results.append(logloss); then
\* cv_results.append(score_value); time_results.append(execution_time)
LogLossComputed ==
    /\ pc = "log_loss"
    /\ clock' = clock + 1
    /\ \E logloss \in LogLosses :
           /\ log_loss_results' = Append(log_loss_results, logloss)
           /\ trace' = Append(trace, Event("log_loss", Len(yielded),
                                           [est |-> trained, X |-> X_test, y |-> y_test],
                                           Value(logloss), clock'))
    /\ cv_results' = Append(cv_results, score_value.v)
    /\ time_results' = Append(time_results, execution_time.v)
    /\ pc' = "split"
    /\ UNCHANGED <<variant, all_X, all_y, yielded, train, test, X_train, y_train,
                   X_test, y_test, start, trained, score_value, execution_time,
                   predicted_values, outcome, inst_vars, ext_vars>>

\* mutant: no except clause, a failure of the try block leaves the evaluator
LogLossFails_Propagates ==
    /\ pc = "log_loss"
    /\ \E exc \in LogLossFailures :
           Propagate("log_loss", [est |-> trained, X |-> X_test, y |-> y_test], exc)
    /\ UNCHANGED <<variant, all_X, all_y, yielded, train, test, X_train, y_train,
                   X_test, y_test, clock, start, trained, score_value, execution_time,
                   predicted_values, cv_results, log_loss_results, time_results,
                   inst_vars, ext_vars>>

\* predict_proba is missing or it or log_loss raises: except BaseException; then
\* cv_results.append(score_value); time_results.append(execution_time)
LogLossFails ==
    /\ pc = "log_loss"
    /\ clock' = clock + 1
    /\ \E exc \in LogLossFailures :
           trace' = Append(trace, Event("log_loss", Len(yielded),
                                        [est |-> trained, X |-> X_test, y |-> y_test],
                                        Raise(exc), clock'))
    /\ cv_results' = Append(cv_results, score_value.v)
    /\ time_results' = Append(time_results, execution_time.v)
    /\ pc' = "split"
    /\ UNCHANGED <<variant, all_X, all_y, yielded, train, test, X_train, y_train,
                   X_test, y_test, start, trained, score_value, execution_time,
                   predicted_values, log_loss_results, outcome, inst_vars, ext_vars>>

\* result = np.array(cv_results).mean(), np.array(log_loss_results).mean(),
\*          np.array(execution_time).mean(); return result
ReturnMeans ==
    /\ pc = "return"
    /\ variant = "track"
    /\ outcome' = IF execution_time = Unbound
                  THEN Raise("UnboundLocalError")
                  ELSE Value(<<mean(cv_results), mean(log_loss_results),
                               mean_of_scalar(execution_time.v)>>)
    /\ pc' = "done"
    /\ UNCHANGED <<variant, all_X, all_y, yielded, train, test, X_train, y_train,
                   X_test, y_test, clock, start, trained, score_value, execution_time,
                   predicted_values, cv_results, log_loss_results, time_results, trace,
                   inst_vars, ext_vars>>

\* predicted_values = trained_estimator.predict(X_test)
Predict ==
    /\ pc = "predict"
    /\ predicted_values' = [by |-> trained, X |-> X_test]
    /\ trace' = Append(trace, Event("predict", Len(yielded),
                                    [est |-> trained, X |-> X_test],
                                    Value(predicted_values'), clock))
    /\ pc' = "scoring"
    /\ UNCHANGED <<variant, all_X, all_y, yielded, train, test, X_train, y_train,
                   X_test, y_test, clock, start, trained, score_value, execution_time,
                   cv_results, log_loss_results, time_results, outcome, inst_vars, ext_vars>>

\* predict raises
PredictRaises ==
    /\ pc = "predict"
    /\ \E exc \in Exceptions : Propagate("predict", [est |-> trained, X |-> X_test], exc)
    /\ UNCHANGED <<variant, all_X, all_y, yielded, train, test, X_train, y_train,
                   X_test, y_test, clock, start, trained, score_value, execution_time,
                   predicted_values, cv_results, log_loss_results, time_results,
                   inst_vars, ext_vars>>

\* cv_results.append(scoring(y_test, predicted_values))
Scoring ==
    /\ pc = "scoring"
    /\ \E v \in Scores :
           /\ cv_results' = Append(cv_results, v)
           /\ trace' = Append(trace, Event("scoring", Len(yielded),
                                           [y |-> y_test, pred |-> predicted_values],
                                           Value(v), clock))
    /\ pc' = "split"
    /\ UNCHANGED <<variant, all_X, all_y, yielded, train, test, X_train, y_train,
                   X_test, y_test, clock, start, trained, score_value, execution_time,
                   predicted_values, log_loss_results, time_results, outcome,
                   inst_vars, ext_vars>>

\* scoring raises
ScoringRaises ==
    /\ pc = "scoring"
    /\ \E exc \in Exceptions :
           Propagate("scoring", [y |-> y_test, pred |-> predicted_values], exc)
    /\ UNCHANGED <<variant, all_X, all_y, yielded, train, test, X_train, y_train,
                   X_test, y_test, clock, start, trained, score_value, execution_time,
                   predicted_values, cv_results, log_loss_results, time_results,
                   inst_vars, ext_vars>>

\* return cv_results
ReturnList ==
    /\ pc = "return"
    /\ variant = "simple"
    /\ outcome' = Value(cv_results)
    /\ pc' = "done"
    /\ UNCHANGED <<variant, all_X, all_y, yielded, train, test, X_train, y_train,
                   X_test, y_test, clock, start, trained, score_value, execution_time,
                   predicted_values, cv_results, log_loss_results, time_results, trace,
                   inst_vars, ext_vars>>

NextCV ==
    \/ SplitYields \/ SplitExhausted \/ SplitRaises
    \/ Fit \/ FitRaises
    \/ Score \/ ScoreRaises
    \/ LogLossComputed \/ LogLossFails
    \/ ReturnMeans
    \/ Predict \/ PredictRaises
    \/ Scoring \/ ScoringRaises
    \/ ReturnList

SpecCV == InitCV /\ [][NextCV]_vars

----------------------------------------------------------------------------
(* split_with_schemas on its own: any dataset, with or without a schema on  *)
(* X and on y, and any sequence of row indices.                             *)

MaxIndices == 3    \* indices handed to one split_with_schemas call

XDatasets == {d[1] : d \in Datasets}
YDatasets == {d[2] : d \in Datasets}
IndexSeqs == SeqsUpTo(1..3, MaxIndices)

InitSplit ==
    /\ IdleInst
    /\ variant = "split"
    /\ pc = "call"
    /\ all_X \in XDatasets
    /\ all_y \in YDatasets
    /\ yielded = <<>>
    /\ train \in IndexSeqs
    /\ test = <<>>
    /\ X_train = Unbound
    /\ y_train = Unbound
    /\ X_test = Unbound
    /\ y_test = Unbound
    /\ clock = 0
    /\ start = Unbound
    /\ trained = Unbound
    /\ score_value = Unbound
    /\ execution_time = Unbound
    /\ predicted_values = Unbound
    /\ cv_results = <<>>
    /\ log_loss_results = <<>>
    /\ time_results = <<>>
    /\ trace = <<>>
    /\ outcome = NotRun
    /\ IdleExt

\* X_train, y_train = split_with_schemas(estimator, X, y, train)
SplitWithSchemas ==
    /\ pc = "call"
    /\ variant = "split"
    /\ \E r \in {split_with_schemas(all_X, all_y, train)} :
           X_train' = r[1] /\ y_train' = r[2]
    /\ pc' = "done"
    /\ UNCHANGED <<variant, all_X, all_y, yielded, train, test, X_test, y_test, clock,
                   start, trained, score_value, execution_time, predicted_values,
                   cv_results, log_loss_results, time_results, trace, outcome,
                   inst_vars, ext_vars>>

NextSplit == SplitWithSchemas

SpecSplit == InitSplit /\ [][NextSplit]_vars

----------------------------------------------------------------------------
(* Claims about the instantiator, checked under SpecInst. *)

Keys(d) == {d.items[i][1] : i \in 1..Len(d.items)}
StepIndex(id) == CHOOSE i \in 1..Len(lale_object.steps) : lale_object.steps[i].id = id
MatchingPipelineCall ==
    /\ calls >= 1
    /\ lale_object.kind = "pipe"
    /\ HasLen(sample0)
    /\ PyLen(sample0) = Len(lale_object.steps)
\* step i instantiated on its own with entry i of the sample
StepInstances ==
    [i \in 1..Len(lale_object.steps) |->
       create_instance_from_hyperopt_search_space(
           lale_object.steps[i], PyIter(sample0)[i]).res]
EdgesAreOverSteps ==
    \A e \in lale_object.edges :
        \A x \in {e[1], e[2]} : \E i \in 1..Len(lale_object.steps) : lale_object.steps[i].id = x

\* C1: a pipeline instantiated with a sample of one entry per step is a pipeline of
\* the instantiations of its steps, step i built from entry i, in the same order,
\* with exactly the edges (map[a], map[b]) for the edges (a, b) of the original.
C1_StructuralFidelity ==
    MatchingPipelineCall =>
        LET insts == StepInstances
        IN  IF (\A i \in DOMAIN insts : ~IsError(insts[i])) /\ EdgesAreOverSteps
            THEN /\ first_result.kind = "pipe"
                 /\ first_result.trainable
                 /\ Len(first_result.steps) = Len(lale_object.steps)
                 /\ \A i \in DOMAIN insts : first_result.steps[i] = insts[i]
                 /\ first_result.edges =
                        {<<insts[StepIndex(e[1])], insts[StepIndex(e[2])]>> :
                           e \in lale_object.edges}
            ELSE IsError(first_result)

\* two different step instances joined by an edge
C1_Witness ==
    /\ MatchingPipelineCall
    /\ first_result.kind = "pipe"
    /\ Len(first_result.steps) = 2
    /\ first_result.steps[1].kind = "op"
    /\ first_result.steps[2].kind = "op"
    /\ first_result.steps[1].hyperparams # first_result.steps[2].hyperparams
    /\ first_result.edges = {<<first_result.steps[1], first_result.steps[2]>>}

SingleAlternative == lale_object.kind = "choice" /\ Len(lale_object.steps) = 1

\* C2 as stated: for a choice with exactly one alternative, instantiating with a
\* sample s gives the same result as instantiating with the mapping {0: s}.
C2_KeyedSampleEquivalent ==
    (SingleAlternative /\ calls >= 1 /\ keyed_result # NotRun /\ sample0.kind = "dict") =>
        keyed_result = first_result

\* C2 as amended: for a choice with exactly one alternative the sample is used as
\* it is: instantiating the choice with s gives what instantiating the alternative
\* with s gives, and instantiating it with {0: s} gives what instantiating the
\* alternative with {0: s} gives.
C2_SampleUsedDirectly ==
    /\ (SingleAlternative /\ calls >= 1 /\ alt_result # NotRun) =>
           first_result = alt_result
    /\ (SingleAlternative /\ keyed_result # NotRun) =>
           keyed_result = create_instance_from_hyperopt_search_space(
                              lale_object.steps[1], PyDict(<< <<"0", sample0>> >>)).res

\* the plain sample builds the operator, the keyed sample does not
C2_Witness ==
    /\ SingleAlternative
    /\ calls >= 1
    /\ alt_result # NotRun
    /\ first_result.kind = "op"
    /\ DictGet(first_result.hyperparams, "a") = PyInt(9)
    /\ IsError(keyed_result)

OpCallReturned ==
    /\ calls >= 1
    /\ lale_object.kind = "op"
    /\ sample0.kind = "dict"
    /\ first_result.kind = "op"
ObjHyperparams ==
    IF lale_object.hyperparams # None THEN lale_object.hyperparams ELSE PyDict(<<>>)

\* C3 as stated: the new instance's hyperparameters are the operator's overridden by
\* the sample's: every key of the sample has the sample's value, every key only in
\* the operator has the operator's value.
C3_EverySampleKeyWins ==
    OpCallReturned =>
        /\ \A k \in Keys(sample0) :
               /\ DictHas(first_result.hyperparams, k)
               /\ DictGet(first_result.hyperparams, k) = DictGet(sample0, k)
        /\ \A k \in Keys(ObjHyperparams) \ Keys(sample0) :
               /\ DictHas(first_result.hyperparams, k)
               /\ DictGet(first_result.hyperparams, k) = DictGet(ObjHyperparams, k)

\* what the operator is given for a sample value: the update that
\* instantiate_from_hyperopt_search_space returns, or the value when it returns None
Resolved(obj_value, sample_value) ==
    LET r == instantiate_from_hyperopt_search_space(obj_value, sample_value)
    IN  IF r.res = None THEN r.sample ELSE r.res

\* C3 as amended: the sample's "name" entry is dropped; every other key of the
\* sample has the sample's value (a scalar as it is, any other value of a key the
\* operator has as instantiate_from_hyperopt_search_space resolves it); every other
\* key of the operator has the operator's value; there are no further keys.
C3_MergePrecedence ==
    OpCallReturned =>
        LET given == Keys(sample0) \ {"name"}
            got == first_result.hyperparams
        IN  /\ Keys(got) = Keys(ObjHyperparams) \cup given
            /\ \A k \in given :
                   /\ DictGet(sample0, k).kind \in {"int", "str"} =>
                          DictGet(got, k) = DictGet(sample0, k)
                   /\ ~DictHas(ObjHyperparams, k) => DictGet(got, k) = DictGet(sample0, k)
                   /\ DictHas(ObjHyperparams, k) =>
                          DictGet(got, k) =
                              Resolved(DictGet(ObjHyperparams, k), DictGet(sample0, k))
            /\ \A k \in Keys(ObjHyperparams) \ given :
                   DictGet(got, k) = DictGet(ObjHyperparams, k)

\* defaults {a: 1, b: 2} with a sample {name, a: 9} give {a: 9, b: 2}
C3_Witness ==
    /\ OpCallReturned
    /\ lale_object.hyperparams = Defaults
    /\ sample0 = Named(<< <<"a", PyInt(9)>> >>)
    /\ first_result.hyperparams = PyDict(<< <<"a", PyInt(9)>>, <<"b", PyInt(2)>> >>)

\* event i of the log is a call on a pipeline with a sample of another length
MismatchCall(i) ==
    /\ log[i].ev = "call"
    /\ log[i].kind = "pipe"
    /\ log[i].nparams >= 0
    /\ log[i].nparams # Len(log[i].stepids)

\* C4: a pipeline, at the top or nested, given a sample whose number of entries is
\* not its number of steps makes the whole call raise ValueError: the call on that
\* pipeline is the last thing that happens, none of its steps is called or built,
\* and the pipeline is not called a second time.
C4_StepCountMismatch ==
    calls >= 1 =>
        \A i \in 1..Len(log) :
            MismatchCall(i) =>
                /\ i = Len(log)
                /\ result = Raise("ValueError")
                /\ \A j \in 1..Len(log) :
                       /\ \A n \in 1..Len(log[i].stepids) : log[j].id # log[i].stepids[n]
                       /\ j # i => log[j].id # log[i].id

\* a nested pipeline with a mismatching sample, reached after an operator was built
C4_Witness ==
    /\ calls >= 1
    /\ Len(log) >= 3
    /\ MismatchCall(Len(log))
    /\ \E j \in 1..Len(log) : log[j].ev = "new"
    /\ result = Raise("ValueError")

\* what a call may change in the sample v0 it is given, leaving v1: only an entry
\* of a dict that is held as a value (not the sample mapping itself) may be
\* replaced, and only when it is a marker or a sequence; elements of lists and
\* tuples, and the sub-space of a marker, stay the objects they were
RECURSIVE Footprint(_, _, _, _)
Footprint(v0, v1, held, replaceable) ==
    \/ v0 = v1
    \/ /\ v0.kind = "dict"
       /\ v1.kind = "dict"
       /\ Len(v1.items) = Len(v0.items)
       /\ \A i \in 1..Len(v0.items) :
              /\ v1.items[i][1] = v0.items[i][1]
              /\ Footprint(v0.items[i][2], v1.items[i][2], TRUE, held)
    \/ /\ v0.kind \in {"list", "tuple"}
       /\ v1.kind = v0.kind
       /\ Len(v1.items) = Len(v0.items)
       /\ \A i \in 1..Len(v0.items) : Footprint(v0.items[i], v1.items[i], held, FALSE)
    \/ /\ v0.kind = "nested"
       /\ v1.kind = "nested"
       /\ Footprint(v0.sub_space, v1.sub_space, FALSE, FALSE)
    \/ /\ replaceable
       /\ v0.kind \in {"nested", "list", "tuple"}

\* C5 as stated: a call changes nothing another call can observe, the sample passed
\* in included, and a second call with the same sample returns the same.
C5_SampleUntouched ==
    /\ calls >= 1 => hyperparams = sample0
    /\ calls >= 2 => result = first_result

\* C5 as amended: a call replaces no entry of the sample it is given and no element
\* of a list or tuple in it; it replaces only entries of dicts held as values in
\* the sample (a marker or a sequence by what it resolved to); a second call with
\* the same sample object returns an equal result and changes the sample no
\* further.
C5_RepeatSameResult ==
    /\ calls >= 1 => Footprint(sample0, hyperparams, FALSE, FALSE)
    /\ calls >= 2 =>
           /\ result = first_result
           /\ hyperparams =
                  create_instance_from_hyperopt_search_space(lale_object, sample0).sample

\* a second call on a sample that the first call changed
C5_Witness ==
    /\ calls >= 2
    /\ hyperparams # sample0
    /\ first_result.kind \in {"op", "pipe"}

----------------------------------------------------------------------------
(* Claims about the evaluators, checked under SpecCV. *)

RowsAt(data, indices) == [i \in 1..Len(indices) |-> data.rows[indices[i]]]
Returned(i) == trace[i].out.kind = "value"
Raised(i) == trace[i].out.kind = "error"
Calls(op) == {i \in 1..Len(trace) : trace[i].op = op}
YieldOf(k) == CHOOSE i \in Calls("split") : Returned(i) /\ trace[i].fold = k
ClosingOp == IF variant = "track" THEN "log_loss" ELSE "scoring"

\* the call before call i is the returned call op of the same fold
FollowsInFold(i, op) ==
    /\ i > 1
    /\ trace[i - 1].op = op
    /\ Returned(i - 1)
    /\ trace[i - 1].fold = trace[i].fold

\* the splitter's k-th fold is yielded when fold k - 1 is closed
SplitInOrder(i) ==
    /\ trace[i].fold = Cardinality({j \in Calls("split") : j < i})
                       + (IF Returned(i) THEN 1 ELSE 0)
    /\ Returned(i) => trace[i].out.v = yielded[trace[i].fold]
    /\ i > 1 => /\ trace[i - 1].op = ClosingOp
                /\ trace[i - 1].fold = trace[i].fold - (IF Returned(i) THEN 1 ELSE 0)
                /\ variant = "simple" => Returned(i - 1)

FitOnTrainSlice(i) ==
    /\ FollowsInFold(i, "split")
    /\ trace[i].args.X.rows = RowsAt(all_X, yielded[trace[i].fold][1])
    /\ trace[i].args.y.rows = RowsAt(all_y, yielded[trace[i].fold][1])

ScoreOnTestSlice(i) ==
    /\ FollowsInFold(i, "fit")
    /\ trace[i].args.est = trace[i - 1].out.v
    /\ trace[i].args.X.rows = RowsAt(all_X, yielded[trace[i].fold][2])
    /\ trace[i].op = "score" =>
           trace[i].args.y.rows = RowsAt(all_y, yielded[trace[i].fold][2])

ScoringOfPrediction(i) ==
    /\ FollowsInFold(i, "predict")
    /\ trace[i].args.pred = trace[i - 1].out.v
    /\ trace[i].args.y.rows = RowsAt(all_y, yielded[trace[i].fold][2])

\* C6: the folds are processed one at a time in the order the splitter yields them:
\* in every fold the estimator is fitted on that fold's train slice and then scored
\* on that fold's test slice, and the next fold is asked of the splitter only when
\* the fold before it is finished.
C6_FoldsInOrder ==
    \A i \in 1..Len(trace) :
        /\ trace[i].op = "split" => SplitInOrder(i)
        /\ trace[i].op = "fit" => FitOnTrainSlice(i)
        /\ trace[i].op \in {"score", "predict"} => ScoreOnTestSlice(i)
        /\ trace[i].op = "scoring" => ScoringOfPrediction(i)
        /\ trace[i].op = "log_loss" => FollowsInFold(i, "score")

\* two different folds were yielded and both were fitted and scored
C6_Witness ==
    /\ pc = "done"
    /\ outcome.kind = "value"
    /\ Len(yielded) = 2
    /\ yielded[1] # yielded[2]
    /\ \E i \in Calls("fit") : trace[i].fold = 2 /\ Returned(i)

FoldCalls == Calls("split") \cup Calls("fit") \cup Calls("score")
                 \cup Calls("predict") \cup Calls("scoring")
LogLossFailed == {i \in Calls("log_loss") : Raised(i)}
LogLossValues == {i \in Calls("log_loss") : Returned(i)}

\* C7: a fold whose log-loss cannot be computed adds no log-loss value, its score
\* and duration are recorded, the loop goes on to the next fold, and the failure
\* never reaches the caller: an evaluation in which no split, fit or score call
\* raises returns a result.
C7_LogLossBestEffort ==
    variant = "track" =>
        /\ Len(log_loss_results) = Cardinality(LogLossValues)
        /\ Len(cv_results) = Cardinality(Calls("log_loss"))
        /\ Len(time_results) = Cardinality(Calls("log_loss"))
        /\ \A i \in LogLossFailed :
               /\ cv_results[trace[i].fold] = trace[i - 1].out.v
               /\ time_results[trace[i].fold] = trace[i - 1].t - trace[YieldOf(trace[i].fold)].t
               /\ i = Len(trace) => pc = "split" /\ outcome = NotRun
               /\ i < Len(trace) => trace[i + 1].op = "split"
        /\ (LogLossFailed # {} /\ pc = "done" /\ \A i \in FoldCalls : ~Raised(i)) =>
               outcome.kind = "value"

\* log-loss failed in the first fold, a second fold was processed, a result returned
C7_Witness ==
    /\ variant = "track"
    /\ outcome.kind = "value"
    /\ \E i \in LogLossFailed : trace[i].fold = 1
    /\ \E i \in LogLossValues : trace[i].fold = 2

\* C8: when a split, fit or score call raises, the evaluator raises that exception:
\* the call is the last one made (no retry, no later fold) and nothing is returned.
C8_FailurePropagates ==
    \A i \in FoldCalls :
        Raised(i) => /\ i = Len(trace)
                     /\ outcome = trace[i].out
                     /\ pc = "done"

\* the first fold was completed and the fit of the second fold raised
C8_Witness ==
    /\ Len(cv_results) = 1
    /\ \E i \in Calls("fit") : Raised(i) /\ trace[i].fold = 2

RECURSIVE SumOut(_)
SumOut(calls_) ==
    IF calls_ = {} THEN 0
    ELSE LET i == CHOOSE j \in calls_ : TRUE
         IN  trace[i].out.v + SumOut(calls_ \ {i})

IsNaN(m) == m.den = 0
\* m is the arithmetic mean of what the calls returned
IsMeanOf(m, calls_) ==
    /\ calls_ # {}
    /\ m.den # 0
    /\ m.num * Cardinality(calls_) = SumOut(calls_) * m.den

FoldDuration(k) ==
    LET i == CHOOSE j \in Calls("score") : trace[j].fold = k
    IN  trace[i].t - trace[YieldOf(k)].t

IsNumber(m, n) == m.den # 0 /\ m.num = n * m.den

\* C10, for the results that are returned: the third component is the fit+score
\* duration of the last fold processed, not the mean of the durations of all folds.
C10_LastFoldDuration ==
    (variant = "track" /\ outcome.kind = "value") =>
        /\ Len(yielded) >= 1
        /\ IsNumber(outcome.v[3], FoldDuration(Len(yielded)))

\* two folds of different durations: the result holds the second, not their mean
C10_Witness ==
    /\ variant = "track"
    /\ outcome.kind = "value"
    /\ Len(yielded) = 2
    /\ FoldDuration(1) # FoldDuration(2)
    /\ ~IsNumber(outcome.v[3], FoldDuration(1))
    /\ IsNumber(outcome.v[3], FoldDuration(2))

\* C10: for every number of folds the splitter yields, an evaluation in which no
\* split, fit or score call raises returns a result whose third component is the
\* fit+score duration of the last fold processed.
C10_EveryFoldCount ==
    (variant = "track" /\ pc = "done" /\ \A i \in FoldCalls : ~Raised(i)) =>
        /\ outcome.kind = "value"
        /\ Len(yielded) >= 1
        /\ IsNumber(outcome.v[3], FoldDuration(Len(yielded)))

----------------------------------------------------------------------------
(* The importer.  An object has an identity "id"; two values are the same   *)
(* object when their ids are equal.  A function that creates objects takes  *)
(* the next free identity and returns, with its result, the next free       *)
(* identity after it.                                                       *)

\* a foreign estimator: its class name and get_params() as (name, value) items
Estimator(id, cls, params) ==
    [kind |-> "estimator", id |-> id, cls |-> cls, params |-> params]
\* sklearn.pipeline.Pipeline and FeatureUnion over their steps
Pipeline(id, steps) == [kind |-> "Pipeline", id |-> id, steps |-> steps]
FeatureUnion(id, steps) == [kind |-> "FeatureUnion", id |-> id, steps |-> steps]

\* hasattr(hp_val, 'get_params')
HasGetParams(hp_val) == hp_val.kind = "estimator"

\* the class names for which lale.lib.sklearn or lale.lib.autoai_libs has a wrapper
WrapperNames == {"LogisticRegression", "BaggingClassifier"}

Made(val, next) == [val |-> val, next |-> next]

RECURSIVE deepcopy(_, _)
RECURSIVE DeepcopyItems(_, _, _, _)
\* the items of a deep copy, item i onwards
DeepcopyItems(items, i, done, next) ==
    IF i > Len(items) THEN Made(done, next)
    ELSE IF HasGetParams(items[i][2])
    THEN Bind(deepcopy(items[i][2], next),
         LAMBDA c : DeepcopyItems(items, i + 1,
                                  Append(done, <<items[i][1], c.val>>), c.next))
    ELSE DeepcopyItems(items, i + 1, Append(done, items[i]), next)

\* copy.deepcopy(x) of an estimator: a new object, and a new object for every
\* estimator among its parameters
deepcopy(x, next) ==
    Bind(DeepcopyItems(x.params, 1, <<>>, next + 1),
    LAMBDA c : Made(Estimator(next, x.cls, c.val), c.next))

\* the operator lale_op(**hyperparams) returns: a new operator with a new
\* implementation object
ConfiguredOp(name, is_trained, wrapper_found, hyperparams_, next) ==
    Made([kind |-> "leaf", id |-> next, name |-> name, trained |-> is_trained,
          lale_wrapper_found |-> wrapper_found, hyperparams |-> hyperparams_,
          impl |-> [kind |-> "impl", id |-> next + 1, cls |-> name,
                    wrapped_model |-> None]],
         next + 2)

RECURSIVE get_equivalent_lale_op(_, _, _)
RECURSIVE HigherOrderLoop(_, _, _, _, _)
\* for hp_name, hp_val in orig_hyperparams.items(): ... (the higher_order loop)
HigherOrderLoop(orig_hyperparams, i, hyperparams_, fitted_, next) ==
    IF i > Len(orig_hyperparams) THEN Made(hyperparams_, next)
    ELSE IF HasGetParams(orig_hyperparams[i][2])
    THEN Bind(get_equivalent_lale_op(orig_hyperparams[i][2], fitted_, next),
         LAMBDA nested_op :
             HigherOrderLoop(orig_hyperparams, i + 1,
                             Append(hyperparams_, <<orig_hyperparams[i][1], nested_op.val>>),
                             fitted_, nested_op.next))
    ELSE HigherOrderLoop(orig_hyperparams, i + 1,
                         Append(hyperparams_, orig_hyperparams[i]), fitted_, next)

\* mutant: the foreign estimator itself is attached, no copy is made
AttachModel_NoCopy(class_, sklearn_obj, next) ==
    IF class_.lale_wrapper_found
    THEN Made([class_ EXCEPT !.impl.wrapped_model = sklearn_obj], next)
    ELSE Made([class_ EXCEPT !.impl = sklearn_obj], next)

\* if lale_wrapper_found: class_._impl_instance()._wrapped_model = deepcopy(sklearn_obj)
\* else: class_._impl = copy.deepcopy(sklearn_obj)
AttachModel(class_, sklearn_obj, next) ==
    Bind(deepcopy(sklearn_obj, next),
    LAMBDA c :
        IF class_.lale_wrapper_found
        THEN Made([class_ EXCEPT !.impl.wrapped_model = c.val], c.next)
        ELSE Made([class_ EXCEPT !.impl = c.val], c.next))

get_equivalent_lale_op(sklearn_obj, fitted_, next) ==
    LET class_name_ == sklearn_obj.cls
        lale_wrapper_found == class_name_ \in WrapperNames
        orig_hyperparams == sklearn_obj.params
        higher_order == \E i \in 1..Len(orig_hyperparams) :
                            HasGetParams(orig_hyperparams[i][2])
    IN  Bind(IF higher_order
             THEN HigherOrderLoop(orig_hyperparams, 1, <<>>, fitted_, next)
             ELSE Made(orig_hyperparams, next),
        LAMBDA h :
        Bind(ConfiguredOp(class_name_, fitted_, lale_wrapper_found, h.val, h.next),
        LAMBDA class_ : AttachModel(class_.val, sklearn_obj, class_.next)))

RECURSIVE import_from_sklearn_pipeline(_, _, _)
RECURSIVE ImportSteps(_, _, _, _, _)
\* [import_from_sklearn_pipeline(step, fitted=fitted) for step in steps]
ImportSteps(steps, i, lale_objects, fitted_, next) ==
    IF i > Len(steps) THEN Made(lale_objects, next)
    ELSE Bind(import_from_sklearn_pipeline(steps[i], fitted_, next),
         LAMBDA r : ImportSteps(steps, i + 1, Append(lale_objects, r.val), fitted_,
                                r.next))

import_from_sklearn_pipeline(sklearn_pipeline_, fitted_, next) ==
    CASE sklearn_pipeline_.kind = "Pipeline" ->
             Bind(ImportSteps(sklearn_pipeline_.steps, 1, <<>>, fitted_, next),
             LAMBDA r : Made([kind |-> "make_pipeline", id |-> r.next, steps |-> r.val],
                             r.next + 1))
      [] sklearn_pipeline_.kind = "FeatureUnion" ->
             Bind(ImportSteps(sklearn_pipeline_.steps, 1, <<>>, fitted_, next),
             LAMBDA r : Made([kind |-> "make_union", id |-> r.next, steps |-> r.val],
                             r.next + 1))
      [] OTHER -> get_equivalent_lale_op(sklearn_pipeline_, fitted_, next)

\* the foreign objects the importer is run on
MaxForeignSteps == 2    \* steps of a foreign Pipeline or FeatureUnion
MaxImports == 2         \* import calls on one foreign object

ClassNames == {"LogisticRegression", "MyEstimator"}
PlainEstimators(id) ==
    {Estimator(id, cls, << <<"C", PyInt(1)>> >>) : cls \in ClassNames}
HigherOrderEstimators(id) ==
    {Estimator(id, cls, << <<"n", PyInt(5)>>, <<"base_estimator", b>> >>) :
         cls \in {"BaggingClassifier", "MyEstimator"}, b \in PlainEstimators(id + 1)}
ForeignLeaves(id) == PlainEstimators(id) \cup HigherOrderEstimators(id)
\* the estimators of the steps are different objects, or all steps are one object
ForeignStepSeqs ==
    UNION {{[i \in 1..n |-> f[i]] :
                f \in {g \in [1..n -> UNION {ForeignLeaves(10 * j) : j \in 1..n}] :
                           \/ \A i \in 1..n : g[i].id = 10 * i
                           \/ \A i \in 1..n : g[i] = g[1]}} :
           n \in 1..MaxForeignSteps}
ForeignObjects ==
    ForeignLeaves(10)
    \cup {Pipeline(1, steps) : steps \in ForeignStepSeqs}
    \cup {FeatureUnion(1, steps) : steps \in ForeignStepSeqs}
    \cup {Pipeline(1, <<FeatureUnion(2, steps)>>) : steps \in ForeignStepSeqs}

\* the first identity no foreign object has
FirstFreeId == 100

InitImport ==
    /\ IdleInst
    /\ IdleCV
    /\ sklearn_pipeline \in ForeignObjects
    /\ fitted \in BOOLEAN
    /\ imports = <<>>
    /\ next_id = FirstFreeId
    /\ wrap_base = None
    /\ wrap_obj = None
    /\ unwrapped = NotRun

\* import_from_sklearn_pipeline(sklearn_pipeline, fitted)
Import ==
    /\ Len(imports) < MaxImports
    /\ \E r \in {import_from_sklearn_pipeline(sklearn_pipeline, fitted, next_id)} :
           /\ imports' = Append(imports, r.val)
           /\ next_id' = r.next
    /\ UNCHANGED <<sklearn_pipeline, fitted, wrap_vars, inst_vars, cv_vars>>

NextImport == Import

SpecImport == InitImport /\ [][NextImport]_vars

----------------------------------------------------------------------------
(* val_wrapper *)

\* val_wrapper(base): self._base = base
val_wrapper(base) == [kind |-> "val_wrapper", _base |-> base]

\* def unwrap_self(self): return self._base
unwrap_self(self) == self._base

\* mutant: return obj.unwrap_self(), one layer is removed
unwrap_OneLayer(obj) ==
    IF obj.kind = "val_wrapper" THEN unwrap_self(obj) ELSE obj

RECURSIVE unwrap(_)
\* @classmethod def unwrap(cls, obj)
unwrap(obj) ==
    IF obj.kind = "val_wrapper" THEN unwrap(unwrap_self(obj)) ELSE obj

MaxWraps == 3    \* val_wrapper calls on one value

\* the values handed to val_wrapper: plain values, and values that are wrappers
PlainValues ==
    {None, PyInt(0), PyInt(1), PyStr("a"), PyStr(""), PyList(<<>>),
     PyList(<<PyInt(1)>>), PyTuple(<<>>), PyDict(<<>>), NestedHyperoptSpace(PyDict(<<>>))}
    \cup PlainEstimators(10)
WrapValues == PlainValues \cup {val_wrapper(v) : v \in PlainValues}

RECURSIVE Layers(_, _)
\* how many val_wrapper calls made obj out of base
Layers(obj_, base_) == IF obj_ = base_ THEN 0 ELSE 1 + Layers(unwrap_self(obj_), base_)

InitWrap ==
    /\ IdleInst
    /\ IdleCV
    /\ sklearn_pipeline = None
    /\ fitted = FALSE
    /\ imports = <<>>
    /\ next_id = 0
    /\ wrap_base \in WrapValues
    /\ wrap_obj = wrap_base
    /\ unwrapped = NotRun

\* obj = val_wrapper(obj)
Wrap ==
    /\ Layers(wrap_obj, wrap_base) < MaxWraps
    /\ wrap_obj' = val_wrapper(wrap_obj)
    /\ unwrapped' = NotRun
    /\ UNCHANGED <<wrap_base, imp_vars, inst_vars, cv_vars>>

\* val_wrapper.unwrap(obj)
Unwrap ==
    /\ unwrapped = NotRun
    /\ unwrapped' = unwrap(wrap_obj)
    /\ UNCHANGED <<wrap_base, wrap_obj, imp_vars, inst_vars, cv_vars>>

NextWrap == Wrap \/ Unwrap

SpecWrap == InitWrap /\ [][NextWrap]_vars

----------------------------------------------------------------------------
(* The claim about split_with_schemas, checked under SpecSplit. *)

\* the subset has the rows at the indices and, when the whole carries a schema, a
\* schema of that many rows with the items entry of the whole
SchemaOfSubset(all, subset, indices) ==
    /\ Len(subset.rows) = Len(indices)
    /\ all.json_schema # None =>
           /\ subset.json_schema # None
           /\ subset.json_schema.minItems = Len(indices)
           /\ subset.json_schema.maxItems = Len(indices)
           /\ subset.json_schema.items = all.json_schema.items

\* C11: for a dataset X (and y) that carries a schema and any indices I, the subset
\* split_with_schemas returns carries a schema whose minItems and maxItems both
\* equal the subset's row count, len(I), and whose items entry is the original's.
C11_SchemaRowCount ==
    pc = "done" =>
        /\ SchemaOfSubset(all_X, X_train, train)
        /\ SchemaOfSubset(all_y, y_train, train)

\* a schema-carrying X of 3 rows split at 2 indices, y without a schema
C11_Witness ==
    /\ pc = "done"
    /\ all_X.json_schema # None
    /\ all_y.json_schema = None
    /\ Len(train) = 2
    /\ X_train.json_schema.minItems = 2
    /\ all_X.json_schema.minItems = 3

----------------------------------------------------------------------------
(* The claim about the importer, checked under SpecImport. *)

RECURSIVE EstimatorIds(_)
\* the identities of an estimator and of the estimators among its parameters
EstimatorIds(e) ==
    {e.id} \cup UNION {EstimatorIds(e.params[i][2]) :
                          i \in {j \in 1..Len(e.params) : HasGetParams(e.params[j][2])}}

RECURSIVE ForeignIds(_)
\* the identities of the estimators of a foreign object
ForeignIds(f) ==
    IF f.kind = "estimator" THEN EstimatorIds(f)
    ELSE UNION {ForeignIds(f.steps[i]) : i \in 1..Len(f.steps)}

RECURSIVE StripIds(_)
\* an estimator without the identities: its class and parameter values
StripIds(e) ==
    [cls |-> e.cls,
     params |-> [i \in 1..Len(e.params) |->
                    IF HasGetParams(e.params[i][2])
                    THEN <<e.params[i][1], StripIds(e.params[i][2])>>
                    ELSE e.params[i]]]

RECURSIVE LeafPairs(_, _)
\* the imported leaves, each with the foreign estimator it was imported from
LeafPairs(op, f) ==
    IF op.kind = "leaf"
    THEN {<<op, f>>}
         \cup UNION {LeafPairs(op.hyperparams[i][2], f.params[i][2]) :
                        i \in {j \in 1..Len(f.params) : HasGetParams(f.params[j][2])}}
    ELSE UNION {LeafPairs(op.steps[i], f.steps[i]) : i \in 1..Len(op.steps)}

\* the estimator object attached to an imported leaf
AttachedOf(leaf) ==
    IF leaf.lale_wrapper_found THEN leaf.impl.wrapped_model ELSE leaf.impl

ImportedLeaves(k) == {pair[1] : pair \in LeafPairs(imports[k], sklearn_pipeline)}
AttachedIds(k) == UNION {EstimatorIds(AttachedOf(leaf)) : leaf \in ImportedLeaves(k)}

\* C12: the estimator attached to each imported leaf, as the wrapper's delegate
\* when a native wrapper was found and as the leaf's implementation otherwise, is a
\* deep copy of the foreign estimator and shares no object with it; the leaves of
\* one import, and of two imports of the same foreign object, share no estimator.
C12_AttachedIsDeepCopy ==
    /\ \A k \in 1..Len(imports) :
           /\ \A pair \in LeafPairs(imports[k], sklearn_pipeline) :
                  /\ pair[1].lale_wrapper_found = (pair[2].cls \in WrapperNames)
                  /\ pair[1].impl.kind =
                         (IF pair[1].lale_wrapper_found THEN "impl" ELSE "estimator")
                  /\ AttachedOf(pair[1]).kind = "estimator"
                  /\ StripIds(AttachedOf(pair[1])) = StripIds(pair[2])
                  /\ EstimatorIds(AttachedOf(pair[1])) \cap ForeignIds(sklearn_pipeline) = {}
           /\ \A l1, l2 \in ImportedLeaves(k) :
                  l1.id # l2.id =>
                      EstimatorIds(AttachedOf(l1)) \cap EstimatorIds(AttachedOf(l2)) = {}
    /\ \A k, j \in 1..Len(imports) : k # j => AttachedIds(k) \cap AttachedIds(j) = {}

\* a foreign pipeline with a wrapped and an unwrapped estimator, one of them with an
\* estimator among its parameters, imported twice
C12_Witness ==
    /\ Len(imports) = 2
    /\ sklearn_pipeline.kind = "Pipeline"
    /\ \E l1, l2, l3 \in ImportedLeaves(1) :
           /\ l1.lale_wrapper_found
           /\ ~l2.lale_wrapper_found
           /\ \E i \in 1..Len(l3.hyperparams) : l3.hyperparams[i][2].kind = "leaf"

----------------------------------------------------------------------------
(* The claim about val_wrapper, checked under SpecWrap. *)

\* C13 as stated: for every value v, wrappers among them, unwrap(val_wrapper(v)) is
\* v and unwrap(val_wrapper(val_wrapper(v))) is v, and unwrapping a value that is
\* not a wrapper returns it unchanged.
C13_UnwrapIsInverse ==
    unwrapped # NotRun =>
        /\ Layers(wrap_obj, wrap_base) \in {1, 2} => unwrapped = wrap_base
        /\ wrap_obj.kind # "val_wrapper" => unwrapped = wrap_obj

\* C13 as amended: for every value v that is not itself a wrapper, unwrap of v under
\* any number of val_wrapper layers, none included, is v; for a v that is a wrapper
\* of a plain value, unwrap of v under any number of layers is that plain value,
\* not v.
C13_UnwrapToPlainValue ==
    unwrapped # NotRun =>
        /\ wrap_base.kind # "val_wrapper" => unwrapped = wrap_base
        /\ wrap_base.kind = "val_wrapper" =>
               /\ unwrapped = wrap_base._base
               /\ unwrapped # wrap_base

\* an estimator object wrapped twice and unwrapped
C13_Witness ==
    /\ wrap_base.kind = "estimator"
    /\ Layers(wrap_obj, wrap_base) = 2
    /\ unwrapped = wrap_base

----------------------------------------------------------------------------
(* The claim about instantiate_from_hyperopt_search_space, checked under    *)
(* SpecValue.                                                               *)

\* the operator a marker is resolved against: the original when it is an operator,
\* its sole element when it is a list of one, else the element at the marker's
\* step index; None when there is none
MarkerTarget(obj_value, marker) ==
    IF obj_value.kind # "list" THEN obj_value
    ELSE IF Len(obj_value.items) = 1 THEN obj_value.items[1]
    ELSE LET sp == marker.sub_space
         IN  IF /\ sp.kind \in {"list", "tuple"}
                /\ Len(sp.items) >= 1
                /\ sp.items[1].kind \in {"list", "tuple"}
                /\ Len(sp.items[1].items) = 2
                /\ sp.items[1].items[1].kind = "int"
                /\ sp.items[1].items[1].v < Len(obj_value.items)
             THEN obj_value.items[sp.items[1].items[1].v + 1]
             ELSE None

RECURSIVE Conforms(_, _)
\* the sample value is shaped after the original value: a marker where the original
\* has an operator to resolve it against, a sequence over a sequence of the same
\* length, a mapping over a mapping that has its keys
Conforms(obj_value, sample_value) ==
    CASE sample_value.kind = "nested" -> IsOperator(MarkerTarget(obj_value, sample_value))
      [] sample_value.kind \in {"list", "tuple"} ->
             /\ obj_value.kind \in {"list", "tuple"}
             /\ Len(obj_value.items) = Len(sample_value.items)
             /\ \A i \in 1..Len(sample_value.items) :
                    Conforms(obj_value.items[i], sample_value.items[i])
      [] sample_value.kind = "dict" ->
             /\ obj_value.kind = "dict"
             /\ \A k \in Keys(sample_value) :
                    /\ DictHas(obj_value, k)
                    /\ Conforms(DictGet(obj_value, k), DictGet(sample_value, k))
      [] OTHER -> TRUE

RECURSIVE MarkersReplaced(_, _)
\* the value is the sample value with every marker in it replaced by an operator
\* instance (a sequence may have changed between list and tuple)
MarkersReplaced(sample_value, value) ==
    CASE sample_value.kind = "nested" ->
             value.kind \in {"op", "pipe"} /\ value.trainable
      [] sample_value.kind \in {"list", "tuple"} ->
             /\ value.kind \in {"list", "tuple"}
             /\ Len(value.items) = Len(sample_value.items)
             /\ \A i \in 1..Len(value.items) :
                    MarkersReplaced(sample_value.items[i], value.items[i])
      [] sample_value.kind = "dict" ->
             /\ value.kind = "dict"
             /\ Len(value.items) = Len(sample_value.items)
             /\ \A i \in 1..Len(value.items) :
                    /\ value.items[i][1] = sample_value.items[i][1]
                    /\ MarkersReplaced(sample_value.items[i][2], value.items[i][2])
      [] OTHER -> value = sample_value

RECURSIVE ReturnsNew(_, _)
\* the call has a new value to return: for a marker, and for a sequence of another
\* container kind than the original or with an element that has a new value
ReturnsNew(obj_value, sample_value) ==
    CASE sample_value.kind = "nested" -> TRUE
      [] sample_value.kind \in {"list", "tuple"} ->
             \/ obj_value.kind # sample_value.kind
             \/ \E i \in 1..Len(sample_value.items) :
                    ReturnsNew(obj_value.items[i], sample_value.items[i])
      [] OTHER -> FALSE

\* what a caller has that keeps the sample value on None and takes the returned
\* value otherwise
CallerValue == IF result = None THEN hyperparams ELSE result

ValueReturned ==
    /\ calls >= 1
    /\ ~IsError(result)
    /\ Conforms(lale_object, sample0)

\* C14 as stated: None is returned exactly when nothing inside the sample needed
\* updating (the caller's value is the sample value as it was), for every shape of
\* sample, and the caller ends up with every marker replaced by its operator.
C14_NoneIffUnchanged ==
    ValueReturned =>
        /\ (result = None) <=> (CallerValue = sample0)
        /\ MarkersReplaced(sample0, CallerValue)

\* C14 as amended: for a mapping None is returned always, the mapping being updated
\* in place; for a scalar None is returned; for a marker the instantiated operator
\* is returned; for a list or tuple an updated copy of the original's container kind
\* is returned when an element has a new value or the container kinds differ, None
\* otherwise.  The caller that keeps the sample value on None ends up with every
\* marker replaced by its operator.
C14_NoneUnlessNewValue ==
    ValueReturned =>
        /\ (result = None) <=> ~ReturnsNew(lale_object, sample0)
        /\ sample0.kind \in {"list", "tuple"} /\ result # None =>
               result.kind = lale_object.kind
        /\ MarkersReplaced(sample0, CallerValue)

\* a mapping with a marker: None is returned and the mapping holds the operator
C14_Witness ==
    /\ ValueReturned
    /\ sample0.kind = "dict"
    /\ result = None
    /\ hyperparams # sample0
    /\ MarkersReplaced(sample0, hyperparams)
====
